---- MODULE Spec2Model ----
(***************************************************************************)
(* A model of UniSettings (src/src/unisettings.cpp): one settings instance *)
(* (System scope or Application scope), the backing files of the           *)
(* configuration directory, the QFileSystemWatcher notifications queued    *)
(* for the instance's event loop, and the single-shot debounce timer.      *)
(*                                                                         *)
(* QSettings is modelled by its documented contract: value()/contains()/   *)
(* allKeys() answer from the in-memory copy loaded at the last sync();     *)
(* sync() reloads the file and writes the pending change over what it      *)
(* reloaded; the INI file stores every value as text, so a reloaded value  *)
(* is a string variant.  QVariant equality of the scalar values used here  *)
(* compares their text.                                                    *)
(*                                                                         *)
(* A key is the sequence of its "/"-separated segments.                    *)
(***************************************************************************)
EXTENDS Naturals, Sequences, FiniteSets, TLC

VARIABLES
    scope,             \* UniSettingsPrivate::scope
    appName,           \* UniSettingsPrivate::appName
    disk,              \* the files of <config>/unisettings: name -> [exists, data]
    settings,          \* UniSettingsPrivate::settings: QSettings' in-memory copy
    cachedValues,      \* UniSettingsPrivate::cachedValues
    appCachedValues,   \* UniSettingsPrivate::appCachedValues
    ignoreNextChange,  \* UniSettingsPrivate::ignoreNextChange
    currentGroup,      \* UniSettingsPrivate::currentGroup
    watcherFiles,      \* QFileSystemWatcher::files()
    pendingEvents,     \* fileChanged/directoryChanged notifications not yet delivered
    timerActive,       \* debounceTimer->isActive()
    timerRemaining,    \* milliseconds until the debounce timer expires
    sinceArm,          \* history: ms from the last start of the timer to now or its expiry
    sinceEvent,        \* history: ms from the last delivered watch event to now or that expiry
    setCalls,          \* history: key -> kind of setValue call since the last expiry
    extTouched,        \* history: keys of the own file changed from outside, unreported
    passState,         \* history: last detectChanges pass since the own file last changed
    emitted,           \* the signals emitted by the last step
    lastOp,            \* the last step taken
    aspect,            \* which part of the model this specification exercises
    s_instance,        \* static UniSettings *s_instance: "null" or "inst"
    s_mutex,           \* static QMutex s_mutex: the thread holding it, 0 when free
    pc,                \* thread -> its position in UniSettings::instance()
    result,            \* thread -> what instance() returned to it
    built,             \* how many times new UniSettings(nullptr) ran the constructor
    complete,          \* the constructor of the instance has finished
    publishFirst       \* the build stores the pointer before the constructor has run

vars == <<scope, appName, disk, settings, cachedValues, appCachedValues,
          ignoreNextChange, currentGroup, watcherFiles, pendingEvents,
          timerActive, timerRemaining, sinceArm, sinceEvent, setCalls,
          extTouched, passState, emitted, lastOp, aspect,
          s_instance, s_mutex, pc, result, built, complete, publishFirst>>

-----------------------------------------------------------------------------
(* Bounds of the model *)

(* Every specification takes the same steps.  To keep each one small, a     *)
(* specification records only the history its claims read and draws the    *)
(* inputs of the part it is about from the larger sets:                    *)
(*   "core"      no history, no application file beside the instance's own *)
(*   "setCalls"  records the setValue calls since the last timer expiry    *)
(*               (one text for the values)                                 *)
(*   "external"  records the keys other processes changed                  *)
(*   "passes"    records the last detection pass                           *)
(*   "clock"     records the time since the timer was started              *)
(*   "siblings"  other files of the directory are written and deleted      *)
(*               (one text for the values of the instance's own file)      *)
(*   "types"     setValue is called with int variants too                  *)
(*   "groups"    groups nest two deep (one text for the values)            *)
(*   "singleton" threads call UniSettings::instance() for the first time   *)

MaxPending == 1
NumThreads == 3

FileNames == {"system", "app1"}
GroupStacks ==
    IF aspect = "groups" THEN {<<>>, <<"a">>, <<"a", "a">>} ELSE {<<>>, <<"a">>}
GroupPrefixes == {<<"a">>}
SetLeaves == {<<"x">>}
RemoveLeaves == {<<"x">>, <<"a">>}
Keys == {g \o l : g \in GroupStacks, l \in SetLeaves}
SiblingKeys == {<<"x">>}
Texts == {"1", "2"}
WriteModes == {"inplace", "replace"}

-----------------------------------------------------------------------------
(* Values and maps *)

SystemScope == "SystemScope"
ApplicationScope == "ApplicationScope"

Invalid == [type |-> "invalid", text |-> ""]
Str(t) == [type |-> "string", text |-> t]
Int(t) == [type |-> "int", text |-> t]
OwnTexts == IF aspect \in {"siblings", "setCalls", "groups"} THEN {"1"} ELSE Texts
InputValues ==
    {Str(t) : t \in OwnTexts} \cup (IF aspect = "types" THEN {Int("1")} ELSE {})
Absent == "absent"

EmptyMap == [k \in {} |-> Invalid]
MapSet(m, k, v) == [x \in (DOMAIN m) \cup {k} |-> IF x = k THEN v ELSE m[x]]
MapRemove(m, ks) == [x \in (DOMAIN m) \ ks |-> m[x]]
Maps(ks, ts) == UNION {[S -> ts] : S \in SUBSET ks}
\* The contents other processes give file f, for the instance named own.
DataMapsOf(own, f) ==
    IF f = own THEN Maps(Keys, OwnTexts)
    ELSE IF aspect = "siblings" THEN Maps(SiblingKeys, Texts)
    ELSE {}

IsPrefix(p, k) == Len(p) < Len(k) /\ SubSeq(k, 1, Len(p)) = p

-----------------------------------------------------------------------------
(* QVariant and QSettings *)

\* QVariant::operator== on the scalar values of the model: two invalid variants
\* are equal, an invalid and a valid one are not, valid ones compare by text.
QVariantEq(a, b) ==
    IF a.type = "invalid" \/ b.type = "invalid"
    THEN a.type = b.type
    ELSE a.text = b.text

\* The INI text written for a variant, and the variant read back from a text.
Encode(v) == v.text
Decode(t) == Str(t)

\* settings->value(key, defaultValue), settings->contains(key), settings->allKeys()
QValue(s, k, d) == IF k \in DOMAIN s THEN s[k] ELSE d
QContains(s, k) == k \in DOMAIN s
QAllKeys(s) == DOMAIN s

\* settings->sync() with nothing pending: the file is parsed again.
SyncRead(data) == [k \in DOMAIN data |-> Decode(data[k])]

\* The in-memory copy after a sync() that writes: a key whose text on disk is the
\* text of the variant held in memory keeps that variant, any other key is parsed.
MergeLoad(s, data) ==
    [k \in DOMAIN data |->
        IF k \in DOMAIN s /\ Encode(s[k]) = data[k] THEN s[k] ELSE Decode(data[k])]

\* settings->setValue(k, v); settings->sync()
SyncSetNoStore(s, data, k, v) ==
    [settings |-> MergeLoad(s, data), data |-> data, wrote |-> TRUE]

SyncSet(s, data, k, v) ==
    [settings |-> MapSet(MergeLoad(s, data), k, v),
     data     |-> MapSet(data, k, Encode(v)),
     wrote    |-> TRUE]

\* settings->remove(k); settings->sync(): the key and its sub-keys leave the file.
SubTree(ks, k) == {x \in ks : x = k \/ IsPrefix(k, x)}

SyncRemove(s, data, k) ==
    LET gone == SubTree(DOMAIN data, k)
        left == MapRemove(data, gone)
    IN  [settings |-> MergeLoad(s, left),
         data     |-> left,
         wrote    |-> gone # {} \/ SubTree(DOMAIN s, k) # {}]

\* settings->clear(); settings->sync()
SyncClear(s, data) ==
    [settings |-> EmptyMap,
     data     |-> EmptyMap,
     wrote    |-> DOMAIN data # {} \/ DOMAIN s # {}]

-----------------------------------------------------------------------------
(* UniSettingsPrivate *)

fullKeyNoGroup(key) == key

fullKey(key) ==
    IF currentGroup = <<>> THEN key ELSE currentGroup \o key

DiffChangesNoRemoved(cache, cur) ==
    LET changed == {k \in DOMAIN cur :
                        k \notin DOMAIN cache \/ ~QVariantEq(cur[k], QValue(cache, k, Invalid))}
    IN  [k \in changed |-> cur[k]]

\* The loop bodies of detectChanges/detectAppChanges: the delta of the file's
\* current values against the cache, and the cache brought up to date.
DiffChanges(cache, cur) ==
    LET changed == {k \in DOMAIN cur :
                        k \notin DOMAIN cache \/ ~QVariantEq(cur[k], QValue(cache, k, Invalid))}
        removed == (DOMAIN cache) \ (DOMAIN cur)
    IN  [k \in changed \cup removed |-> IF k \in changed THEN cur[k] ELSE Invalid]

DiffCacheStale(cache, cur) == cache

DiffCache(cache, cur) ==
    LET changes == DiffChanges(cache, cur)
    IN  [k \in DOMAIN cur |-> IF k \in DOMAIN changes THEN cur[k] ELSE cache[k]]

cacheAllValues(s) == [k \in QAllKeys(s) |-> QValue(s, k, Invalid)]

DetectChangesSwallow(cache, ignore, s, data) ==
    LET cur == SyncRead(data)
    IN  IF ignore
        THEN [changes |-> EmptyMap, cache |-> DiffCache(cache, cur), ignore |-> FALSE,
              settings |-> cur, suppressed |-> TRUE]
        ELSE [changes |-> DiffChanges(cache, cur), cache |-> DiffCache(cache, cur),
              ignore |-> FALSE, settings |-> cur, suppressed |-> FALSE]

DetectChangesKeepFlag(cache, ignore, s, data) ==
    IF ignore
    THEN [changes |-> EmptyMap, cache |-> cache, ignore |-> TRUE,
          settings |-> s, suppressed |-> TRUE]
    ELSE LET cur == SyncRead(data)
         IN  [changes |-> DiffChanges(cache, cur), cache |-> DiffCache(cache, cur),
              ignore |-> FALSE, settings |-> cur, suppressed |-> FALSE]

DetectChangesAlways(cache, ignore, s, data) ==
    LET cur == SyncRead(data)
    IN  [changes |-> DiffChanges(cache, cur), cache |-> DiffCache(cache, cur),
         ignore |-> FALSE, settings |-> cur, suppressed |-> FALSE]

DetectChanges(cache, ignore, s, data) ==
    IF ignore
    THEN [changes |-> EmptyMap, cache |-> cache, ignore |-> FALSE,
          settings |-> s, suppressed |-> TRUE]
    ELSE LET cur == SyncRead(data)
         IN  [changes |-> DiffChanges(cache, cur), cache |-> DiffCache(cache, cur),
              ignore |-> FALSE, settings |-> cur, suppressed |-> FALSE]

\* detectAppChanges(path, name): appCachedValues[name] is created empty when missing.
DetectAppChanges(appCache, name, data) ==
    LET cached == IF name \in DOMAIN appCache THEN appCache[name] ELSE EmptyMap
        cur == SyncRead(data)
    IN  [changes |-> DiffChanges(cached, cur), cache |-> DiffCache(cached, cur)]

-----------------------------------------------------------------------------
(* Signals *)

OnDisk(data, k) == IF k \in DOMAIN data THEN data[k] ELSE Absent

\* A signal as an observer receives it: onDisk is what the backing file of
\* `owner` holds for the key at the moment of the emission.
ValueChanged(k, v, data) ==
    [sig |-> "valueChanged", owner |-> "", key |-> k, value |-> v, onDisk |-> OnDisk(data, k)]
ExternalValueChanged(name, k, v, data) ==
    [sig |-> "externalValueChanged", owner |-> name, key |-> k, value |-> v,
     onDisk |-> OnDisk(data, k)]

-----------------------------------------------------------------------------
(* The watcher and the debounce timer *)

DebounceIntervalShort == 100 \div 2

\* debounceTimer->setInterval(100)
DebounceInterval == 100

\* The step by which the model lets time pass.
TickMs == DebounceInterval \div 2

Min(a, b) == IF a < b THEN a ELSE b
Monus(a, b) == IF a > b THEN a - b ELSE 0

\* What a write to file f does to the watcher: creating or replacing the file
\* changes the directory (which is watched), and a replaced file drops out of
\* files(); a write in place is reported only if the file itself is watched.
WatchEffect(f, existed, mode, files, pending) ==
    IF ~existed THEN [files |-> files, pending |-> pending + 1]
    ELSE IF mode = "replace" THEN [files |-> files \ {f}, pending |-> pending + 1]
    ELSE [files |-> files, pending |-> IF f \in files THEN pending + 1 ELSE pending]

\* onFileChanged's effect on the timer: <<isActive, remaining>>.
OnFileChangedRestart(active, remaining) == <<TRUE, DebounceInterval>>

OnFileChangedTimer(active, remaining) ==
    IF ~active THEN <<TRUE, DebounceInterval>> ELSE <<active, remaining>>

NoOp == [name |-> "init", leaf |-> <<>>, key |-> <<>>, value |-> Invalid, flag |-> FALSE]
\* The operands of the last step are recorded where claims read them.
Op(n, l, k, v, b) ==
    IF aspect \in {"core", "types", "groups"}
    THEN [name |-> n, leaf |-> l, key |-> k, value |-> v, flag |-> b]
    ELSE [name |-> n, leaf |-> <<>>, key |-> <<>>, value |-> Invalid, flag |-> b]

Threads == 1 .. NumThreads
OwnData == disk[appName].data
AppNames == FileNames \ {"system"}
NoFile == [exists |-> FALSE, data |-> EmptyMap]
File(d) == [exists |-> TRUE, data |-> d]
FileStatesOf(own, f) == {NoFile} \cup {File(d) : d \in DataMapsOf(own, f)}
ExistingFiles(dsk) == {f \in FileNames : dsk[f].exists}

-----------------------------------------------------------------------------
(* The state after construction: UniSettingsPrivate's constructor loads the   *)
(* own file and caches it; the System instance watches and seeds the cache of *)
(* every application file it finds, the Application instance watches its own. *)

SeedNothing(dsk) == EmptyMap

\* The constructor's loop over the *.conf files beside system.conf: each is passed
\* to detectAppChanges, whose result is dropped.
SeedAppCaches(dsk) ==
    [f \in ExistingFiles(dsk) \ {"system"} |->
        DetectAppChanges(EmptyMap, f, dsk[f].data).cache]

InitAspect(a) ==
    /\ aspect = a
    /\ scope \in IF a = "singleton" THEN {SystemScope} ELSE {SystemScope, ApplicationScope}
    /\ appName = IF scope = SystemScope THEN "system" ELSE "app1"
    /\ disk \in [FileNames -> UNION {FileStatesOf(appName, f) : f \in FileNames}]
    /\ \A f \in FileNames : disk[f] \in FileStatesOf(appName, f)
    /\ settings = SyncRead(disk[appName].data)
    /\ cachedValues = cacheAllValues(settings)
    /\ appCachedValues = IF scope = SystemScope THEN SeedAppCaches(disk) ELSE EmptyMap
    /\ watcherFiles =
          IF scope = SystemScope THEN ExistingFiles(disk)
          ELSE ExistingFiles(disk) \cap {appName}
    /\ ignoreNextChange = FALSE
    /\ currentGroup = <<>>
    /\ pendingEvents = 0
    /\ timerActive = FALSE
    /\ timerRemaining = 0
    /\ sinceArm = 0
    /\ sinceEvent = 0
    /\ setCalls = [k \in Keys |-> "none"]
    /\ extTouched = {}
    /\ passState = "none"
    /\ emitted = {}
    /\ lastOp = NoOp
    /\ s_mutex = 0
    /\ IF a = "singleton"
       THEN /\ s_instance = "null"
            /\ pc = [t \in Threads |-> "check"]
            /\ result = [t \in Threads |-> "none"]
            /\ built = 0
            /\ complete = FALSE
            /\ publishFirst \in BOOLEAN
       ELSE /\ s_instance = "inst"
            /\ pc = [t \in Threads |-> "done"]
            /\ result = [t \in Threads |-> "inst"]
            /\ built = 1
            /\ complete = TRUE
            /\ publishFirst = FALSE

-----------------------------------------------------------------------------
(* The public operations *)

timerVars == <<timerActive, timerRemaining, sinceArm, sinceEvent>>
threadVars == <<s_instance, s_mutex, pc, result, built, complete, publishFirst>>
idVars == <<scope, appName, aspect, threadVars>>

\* A local write's effect on the files and the watcher; the history of passes
\* restarts when the own file's contents change.
LocalWrite(res, mode) ==
    LET own == disk[appName]
        w == WatchEffect(appName, own.exists, mode, watcherFiles, pendingEvents)
    IN  /\ settings' = res.settings
        /\ IF res.wrote
           THEN /\ disk' = [disk EXCEPT ![appName] = File(res.data)]
                /\ watcherFiles' = w.files
                /\ pendingEvents' = w.pending
           ELSE UNCHANGED <<disk, watcherFiles, pendingEvents>>
        /\ passState' = IF res.data # own.data THEN "none" ELSE passState

SetValueSignalsEarly(fk, value, before, after) == {ValueChanged(fk, value, before)}

\* emit valueChanged(fullKey, value), after sync()
SetValueSignals(fk, value, before, after) == {ValueChanged(fk, value, after)}

\* emit valueChanged(fullKey, QVariant()), after sync()
RemoveSignals(fk, before, after) == {ValueChanged(fk, Invalid, after)}

SetValue(leaf, value, mode) ==
    LET fk == fullKey(leaf)
        oldValue == QValue(settings, fk, Invalid)
        res == SyncSet(settings, OwnData, fk, value)
    IN  /\ pendingEvents < MaxPending
        /\ IF ~QVariantEq(oldValue, value)
           THEN /\ ignoreNextChange' = TRUE
                /\ LocalWrite(res, mode)
                /\ cachedValues' = MapSet(cachedValues, fk, value)
                /\ emitted' = SetValueSignals(fk, value, OwnData, res.data)
                /\ setCalls' = IF aspect = "setCalls"
                               THEN [setCalls EXCEPT ![fk] = "wrote"] ELSE setCalls
                /\ extTouched' = extTouched \ {fk}
                /\ lastOp' = Op("setValue", leaf, fk, value, TRUE)
           ELSE /\ emitted' = {}
                /\ setCalls' = IF aspect = "setCalls"
                               THEN [setCalls EXCEPT ![fk] = IF @ = "wrote" THEN @ ELSE "noop"]
                               ELSE setCalls
                /\ lastOp' = Op("setValue", leaf, fk, value, FALSE)
                /\ UNCHANGED <<ignoreNextChange, settings, disk, watcherFiles,
                               pendingEvents, passState, cachedValues, extTouched>>
        /\ UNCHANGED <<idVars, appCachedValues, currentGroup, timerVars>>

Remove(leaf, mode) ==
    LET fk == fullKey(leaf)
        res == SyncRemove(settings, OwnData, fk)
    IN  /\ pendingEvents < MaxPending
        /\ ignoreNextChange' = TRUE
        /\ LocalWrite(res, mode)
        /\ cachedValues' = MapRemove(cachedValues, {fk})
        /\ emitted' = RemoveSignals(fk, OwnData, res.data)
        /\ extTouched' = extTouched \ SubTree(Keys, fk)
        /\ lastOp' = Op("remove", leaf, fk, Invalid, res.data # OwnData)
        /\ UNCHANGED <<idVars, appCachedValues, currentGroup, timerVars, setCalls>>

Clear(mode) ==
    LET res == SyncClear(settings, OwnData)
    IN  /\ pendingEvents < MaxPending
        /\ ignoreNextChange' = TRUE
        /\ LocalWrite(res, mode)
        /\ cachedValues' = EmptyMap
        /\ emitted' = {}
        /\ extTouched' = {}
        /\ lastOp' = Op("clear", <<>>, <<>>, Invalid, res.data # OwnData)
        /\ UNCHANGED <<idVars, appCachedValues, currentGroup, timerVars, setCalls>>

Sync ==
    /\ settings' = SyncRead(OwnData)
    /\ emitted' = {}
    /\ lastOp' = Op("sync", <<>>, <<>>, Invalid, FALSE)
    /\ UNCHANGED <<idVars, disk, cachedValues, appCachedValues, ignoreNextChange,
                   currentGroup, watcherFiles, pendingEvents, timerVars, setCalls,
                   extTouched, passState>>

BeginGroup(prefix) ==
    /\ currentGroup \o prefix \in GroupStacks
    /\ currentGroup' = IF currentGroup # <<>> THEN currentGroup \o prefix ELSE prefix
    /\ emitted' = {}
    /\ lastOp' = Op("beginGroup", prefix, currentGroup', Invalid, FALSE)
    /\ UNCHANGED <<idVars, disk, settings, cachedValues, appCachedValues,
                   ignoreNextChange, watcherFiles, pendingEvents, timerVars, setCalls,
                   extTouched, passState>>

\* lastIndexOf('/') >= 0 exactly when the group has two segments or more.
EndGroup ==
    /\ currentGroup' = IF Len(currentGroup) >= 2
                       THEN SubSeq(currentGroup, 1, Len(currentGroup) - 1)
                       ELSE <<>>
    /\ emitted' = {}
    /\ lastOp' = Op("endGroup", <<>>, currentGroup', Invalid, FALSE)
    /\ UNCHANGED <<idVars, disk, settings, cachedValues, appCachedValues,
                   ignoreNextChange, watcherFiles, pendingEvents, timerVars, setCalls,
                   extTouched, passState>>

\* value(key, defaultValue), contains(key), allKeys()
value(key, defaultValue) == QValue(settings, fullKey(key), defaultValue)
contains(key) == QContains(settings, fullKey(key))
allKeys == QAllKeys(settings)

\* systemValue(key, defaultValue): a System-scope instance answers with value(),
\* any other opens system.conf with a QSettings of its own.
systemValue(key, defaultValue) ==
    IF scope = SystemScope
    THEN value(key, defaultValue)
    ELSE QValue(SyncRead(disk["system"].data), key, defaultValue)

\* appValue(appName, key, defaultValue): opens <appName>.conf with a QSettings of its own.
appValue(name, key, defaultValue) ==
    QValue(SyncRead(disk[name].data), key, defaultValue)

-----------------------------------------------------------------------------
(* Other processes: a file of the directory is written or deleted *)

ExternalWrite(f, data, mode) ==
    LET old == disk[f]
        w == WatchEffect(f, old.exists, mode, watcherFiles, pendingEvents)
    IN  /\ pendingEvents < MaxPending
        /\ disk' = [disk EXCEPT ![f] = File(data)]
        /\ watcherFiles' = w.files
        /\ pendingEvents' = w.pending
        /\ extTouched' = IF f = appName /\ aspect = "external"
                         THEN extTouched \cup {k \in Keys : OnDisk(data, k) # OnDisk(old.data, k)}
                         ELSE extTouched
        /\ passState' = IF f = appName /\ data # old.data THEN "none" ELSE passState
        /\ emitted' = {}
        /\ lastOp' = Op("externalWrite", <<f>>, <<>>, Invalid, FALSE)
        /\ UNCHANGED <<idVars, settings, cachedValues, appCachedValues, ignoreNextChange,
                       currentGroup, timerVars, setCalls>>

ExternalDelete(f) ==
    LET old == disk[f]
    IN  /\ pendingEvents < MaxPending
        /\ old.exists
        /\ disk' = [disk EXCEPT ![f] = NoFile]
        /\ watcherFiles' = watcherFiles \ {f}
        /\ pendingEvents' = pendingEvents + 1
        /\ extTouched' = IF f = appName /\ aspect = "external"
                         THEN extTouched \cup DOMAIN old.data ELSE extTouched
        /\ passState' = IF f = appName /\ old.data # EmptyMap THEN "none" ELSE passState
        /\ emitted' = {}
        /\ lastOp' = Op("externalDelete", <<f>>, <<>>, Invalid, FALSE)
        /\ UNCHANGED <<idVars, settings, cachedValues, appCachedValues, ignoreNextChange,
                       currentGroup, timerVars, setCalls>>

-----------------------------------------------------------------------------
(* The event loop: watch notifications, the passing of time, the timer *)

OnFileChanged ==
    LET t == OnFileChangedTimer(timerActive, timerRemaining)
    IN  /\ pendingEvents > 0
        /\ pendingEvents' = pendingEvents - 1
        /\ timerActive' = t[1]
        /\ timerRemaining' = t[2]
        /\ sinceArm' = IF timerActive THEN sinceArm ELSE 0
        /\ sinceEvent' = 0
        /\ emitted' = {}
        /\ lastOp' = Op("onFileChanged", <<>>, <<>>, Invalid, timerActive)
        /\ UNCHANGED <<idVars, disk, settings, cachedValues, appCachedValues,
                       ignoreNextChange, currentGroup, watcherFiles, setCalls,
                       extTouched, passState>>

Tick ==
    /\ timerActive
    /\ timerRemaining > 0
    /\ timerRemaining' = Monus(timerRemaining, TickMs)
    /\ sinceArm' = IF aspect = "clock" THEN Min(sinceArm + TickMs, DebounceInterval) ELSE 0
    /\ sinceEvent' = IF aspect = "clock" THEN Min(sinceEvent + TickMs, DebounceInterval) ELSE 0
    /\ emitted' = {}
    /\ lastOp' = Op("tick", <<>>, <<>>, Invalid, FALSE)
    /\ UNCHANGED <<idVars, disk, settings, cachedValues, appCachedValues,
                   ignoreNextChange, currentGroup, watcherFiles, pendingEvents,
                   timerActive, setCalls, extTouched, passState>>

\* The signals a timeout lambda emits for the delta of the instance's own file.
TimeoutSignalsBoth(scp, name, changes, data) ==
    {ExternalValueChanged(name, k, changes[k], data) : k \in DOMAIN changes}
        \cup {ValueChanged(k, changes[k], data) : k \in DOMAIN changes}

TimeoutSignals(scp, name, changes, data) ==
    {ExternalValueChanged(name, k, changes[k], data) : k \in DOMAIN changes}
        \cup IF scp = ApplicationScope
             THEN {ValueChanged(k, changes[k], data) : k \in DOMAIN changes}
             ELSE {}

RewatchNever(files) == files

\* Re-add the own file to the watcher if it dropped out and exists.
Rewatch(files) ==
    IF appName \notin files /\ disk[appName].exists THEN files \cup {appName} ELSE files

TimeoutCommon(pass) ==
    /\ timerActive
    /\ timerRemaining = 0
    /\ timerActive' = FALSE
    /\ timerRemaining' = 0
    /\ UNCHANGED <<sinceArm, sinceEvent>>
    /\ cachedValues' = pass.cache
    /\ ignoreNextChange' = pass.ignore
    /\ settings' = pass.settings
    /\ setCalls' = [k \in Keys |-> "none"]
    /\ extTouched' = IF pass.suppressed THEN extTouched ELSE {}
    /\ passState' = IF aspect # "passes" THEN "none"
                    ELSE IF pass.suppressed THEN "suppressed" ELSE "diffed"
    /\ lastOp' = Op("timeout", <<>>, <<>>, Invalid, pass.suppressed)
    /\ UNCHANGED <<idVars, disk, currentGroup, pendingEvents>>

TimeoutSystemSkipsApps ==
    LET pass == DetectChanges(cachedValues, ignoreNextChange, settings, OwnData)
        apps == IF pass.suppressed THEN {}
                ELSE {f \in ExistingFiles(disk) : f # "system"}
        appPass(f) == DetectAppChanges(appCachedValues, f, disk[f].data)
    IN  /\ scope = SystemScope
        /\ TimeoutCommon(pass)
        /\ appCachedValues' =
              [f \in (DOMAIN appCachedValues) \cup apps |->
                  IF f \in apps THEN appPass(f).cache ELSE appCachedValues[f]]
        /\ emitted' = TimeoutSignals(scope, "system", pass.changes, OwnData)
              \cup UNION {{ExternalValueChanged(f, k, appPass(f).changes[k], disk[f].data) :
                              k \in DOMAIN appPass(f).changes} : f \in apps}
        /\ watcherFiles' = Rewatch(watcherFiles \cup apps)

\* The timeout lambda of UniSettings(QObject*)
TimeoutSystem ==
    LET pass == DetectChanges(cachedValues, ignoreNextChange, settings, OwnData)
        apps == {f \in ExistingFiles(disk) : f # "system"}
        appPass(f) == DetectAppChanges(appCachedValues, f, disk[f].data)
    IN  /\ scope = SystemScope
        /\ TimeoutCommon(pass)
        /\ appCachedValues' =
              [f \in (DOMAIN appCachedValues) \cup apps |->
                  IF f \in apps THEN appPass(f).cache ELSE appCachedValues[f]]
        /\ emitted' = TimeoutSignals(scope, "system", pass.changes, OwnData)
              \cup UNION {{ExternalValueChanged(f, k, appPass(f).changes[k], disk[f].data) :
                              k \in DOMAIN appPass(f).changes} : f \in apps}
        /\ watcherFiles' = Rewatch(watcherFiles \cup apps)

\* The timeout lambda of UniSettings(const QString&, QObject*)
TimeoutApplication ==
    LET pass == DetectChanges(cachedValues, ignoreNextChange, settings, OwnData)
    IN  /\ scope = ApplicationScope
        /\ TimeoutCommon(pass)
        /\ emitted' = TimeoutSignals(scope, appName, pass.changes, OwnData)
        /\ watcherFiles' = Rewatch(watcherFiles)
        /\ UNCHANGED appCachedValues

Timeout == TimeoutSystem \/ TimeoutApplication

-----------------------------------------------------------------------------

Next ==
    \/ \E l \in SetLeaves, v \in InputValues, m \in WriteModes : SetValue(l, v, m)
    \/ \E l \in RemoveLeaves, m \in WriteModes : Remove(l, m)
    \/ \E m \in WriteModes : Clear(m)
    \/ Sync
    \/ \E p \in GroupPrefixes : BeginGroup(p)
    \/ EndGroup
    \/ \E f \in FileNames, m \in WriteModes :
          \E d \in DataMapsOf(appName, f) : ExternalWrite(f, d, m)
    \/ \E f \in FileNames : DataMapsOf(appName, f) # {} /\ ExternalDelete(f)
    \/ OnFileChanged
    \/ Tick
    \/ TimeoutSystem
    \/ TimeoutApplication

Init == InitAspect("core")
Spec == Init /\ [][Next]_vars

InitSetCalls == InitAspect("setCalls")
SpecSetCalls == InitSetCalls /\ [][Next]_vars

InitExternal == InitAspect("external")
SpecExternal == InitExternal /\ [][Next]_vars

InitPasses == InitAspect("passes")
SpecPasses == InitPasses /\ [][Next]_vars

InitClock == InitAspect("clock")
SpecClock == InitClock /\ [][Next]_vars

InitSiblings == InitAspect("siblings")
SpecSiblings == InitSiblings /\ [][Next]_vars

InitTypes == InitAspect("types")
SpecTypes == InitTypes /\ [][Next]_vars

InitGroups == InitAspect("groups")
SpecGroups == InitGroups /\ [][Next]_vars

-----------------------------------------------------------------------------
(* UniSettings::instance(): threads asking for the System-scope singleton for *)
(* the first time.  In this specification the instance variables hold the    *)
(* state the constructor produces; they do not change.                       *)
(*                                                                            *)
(* s_instance is a plain pointer.  The read outside the mutex races with the *)
(* write inside it: it returns the pointer stored or, for a thread that has  *)
(* not yet seen it, the null that was there before.  The statement           *)
(* s_instance = new UniSettings(nullptr) is an allocation, a constructor run *)
(* and a store of the pointer; nothing orders the store after the            *)
(* constructor for a reader that does not take the mutex, so a build may make *)
(* the pointer visible first.                                                 *)

instanceVars == <<disk, settings, cachedValues, appCachedValues, ignoreNextChange,
                  currentGroup, watcherFiles, pendingEvents, timerVars, setCalls,
                  extTouched, passState, emitted, lastOp, scope, appName, aspect>>

\* The values the unlocked read of s_instance may return.
RacyRead == IF s_instance = "null" THEN {"null"} ELSE {"null", "inst"}

\* if (!s_instance), outside the mutex
InstanceCheck(t) ==
    /\ pc[t] = "check"
    /\ \E r \in RacyRead :
          pc' = [pc EXCEPT ![t] = IF r = "null" THEN "lock" ELSE "return"]
    /\ UNCHANGED <<instanceVars, s_instance, s_mutex, result, built, complete, publishFirst>>

\* QMutexLocker locker(&s_mutex)
InstanceLock(t) ==
    /\ pc[t] = "lock"
    /\ s_mutex = 0
    /\ s_mutex' = t
    /\ pc' = [pc EXCEPT ![t] = "recheck"]
    /\ UNCHANGED <<instanceVars, s_instance, result, built, complete, publishFirst>>

\* if (!s_instance), holding the mutex
InstanceRecheck(t) ==
    /\ pc[t] = "recheck"
    /\ pc' = [pc EXCEPT ![t] = IF s_instance = "null" THEN "new" ELSE "unlock"]
    /\ UNCHANGED <<instanceVars, s_instance, s_mutex, result, built, complete, publishFirst>>

\* s_instance = new UniSettings(nullptr): the constructor run and the store of the
\* pointer, in the order of the build.
InstanceConstruct(t) ==
    /\ pc[t] = IF publishFirst THEN "new2" ELSE "new"
    /\ built' = built + 1
    /\ complete' = TRUE
    /\ pc' = [pc EXCEPT ![t] = IF publishFirst THEN "unlock" ELSE "new2"]
    /\ UNCHANGED <<instanceVars, s_instance, s_mutex, result, publishFirst>>

InstancePublish(t) ==
    /\ pc[t] = IF publishFirst THEN "new" ELSE "new2"
    /\ s_instance' = "inst"
    /\ pc' = [pc EXCEPT ![t] = IF publishFirst THEN "new2" ELSE "unlock"]
    /\ UNCHANGED <<instanceVars, s_mutex, result, built, complete, publishFirst>>

\* the locker goes out of scope
InstanceUnlock(t) ==
    /\ pc[t] = "unlock"
    /\ s_mutex' = IF s_mutex = t THEN 0 ELSE s_mutex
    /\ pc' = [pc EXCEPT ![t] = "return"]
    /\ UNCHANGED <<instanceVars, s_instance, result, built, complete, publishFirst>>

\* return s_instance: the thread has seen the pointer stored, or stored it itself
InstanceReturn(t) ==
    /\ pc[t] = "return"
    /\ result' = [result EXCEPT ![t] = s_instance]
    /\ pc' = [pc EXCEPT ![t] = "done"]
    /\ UNCHANGED <<instanceVars, s_instance, s_mutex, built, complete, publishFirst>>

NextSingleton ==
    \E t \in Threads :
        \/ InstanceCheck(t)
        \/ InstanceLock(t)
        \/ InstanceRecheck(t)
        \/ InstanceConstruct(t)
        \/ InstancePublish(t)
        \/ InstanceUnlock(t)
        \/ InstanceReturn(t)

InitSingleton == InitAspect("singleton")
SpecSingleton == InitSingleton /\ [][NextSingleton]_vars

-----------------------------------------------------------------------------
(* Properties *)

ExternalFor(sigs, name, k) ==
    {s \in sigs : s.sig = "externalValueChanged" /\ s.owner = name /\ s.key = k}
ValueChangedIn(sigs) == {s \in sigs : s.sig = "valueChanged"}
ExternalIn(sigs) == {s \in sigs : s.sig = "externalValueChanged"}
CacheAgrees(k) ==
    IF k \in DOMAIN cachedValues
    THEN k \in DOMAIN OwnData /\ cachedValues[k].text = OwnData[k]
    ELSE k \notin DOMAIN OwnData
ExpiryDue == timerActive /\ timerRemaining = 0

\* C1 as stated: after any local setValue(k, v), the next timer expiry emits no
\* externalValueChanged of the instance's own file for k.
C1_Original ==
    [][lastOp'.name = "timeout" =>
          \A k \in Keys : setCalls[k] # "none" => ExternalFor(emitted', appName, k) = {}]_vars

\* C1 amended: after a local setValue(k, v) that changed the stored value, the next
\* timer expiry emits no externalValueChanged of the own file for k, and the call
\* itself emitted exactly one signal, the valueChanged for k.
C1_SelfWriteSuppressed ==
    [][/\ lastOp'.name = "timeout" =>
            \A k \in Keys : setCalls[k] = "wrote" => ExternalFor(emitted', appName, k) = {}
       /\ (lastOp'.name = "setValue" /\ lastOp'.flag) =>
            /\ Cardinality(emitted') = 1
            /\ \A s \in emitted' : s.sig = "valueChanged" /\ setCalls'[s.key] = "wrote"]_vars

\* A setValue changed k, another process then changed k on disk, and the timer is due.
C1_Witness ==
    \E k \in Keys : setCalls[k] = "wrote" /\ ExpiryDue /\ ~CacheAgrees(k)

\* value(k) as the store answers it, as a text, against the file's text for k.
StoreReflectsDisk(s, data, k) ==
    IF k \in DOMAIN data THEN k \in DOMAIN s /\ s[k].text = data[k] ELSE k \notin DOMAIN s
Reports(sig, data) ==
    IF sig.key \in DOMAIN data
    THEN sig.value.type # "invalid" /\ sig.value.text = data[sig.key]
    ELSE sig.value = Invalid

\* C2: at the timer expiry that follows an edit of the own file by another process,
\* one externalValueChanged is emitted for every key the edit added, changed or
\* removed (every key changed from outside whose file value differs from the
\* cache), carrying the file's content, and value(key) then returns that content.
C2_ExternalEditDetected ==
    [][lastOp'.name = "timeout" =>
          \A k \in extTouched : ~CacheAgrees(k) =>
              /\ Cardinality(ExternalFor(emitted', appName, k)) = 1
              /\ \A s \in ExternalFor(emitted', appName, k) : Reports(s, OwnData)
              /\ StoreReflectsDisk(settings', OwnData, k)]_vars

\* The same, for the expiries that find Suppress-Next clear.
C2_UnlessSuppressed ==
    [][(lastOp'.name = "timeout" /\ ~ignoreNextChange) =>
          \A k \in extTouched : ~CacheAgrees(k) =>
              /\ Cardinality(ExternalFor(emitted', appName, k)) = 1
              /\ \A s \in ExternalFor(emitted', appName, k) : Reports(s, OwnData)
              /\ StoreReflectsDisk(settings', OwnData, k)]_vars

ExternalOf(sigs, name) == {s \in sigs : s.sig = "externalValueChanged" /\ s.owner = name}

\* C3: the System instance's timer expiry that first meets an application file (the
\* file exists and has no Sibling Cache entry yet) adds it to the watch set and
\* seeds its cache entry with the file's contents, and emits no
\* externalValueChanged for that application.
C3_DiscoveryEmitsNothing ==
    [][(lastOp'.name = "timeout" /\ scope = SystemScope) =>
          \A f \in AppNames : (disk[f].exists /\ f \notin DOMAIN appCachedValues) =>
              /\ f \in watcherFiles'
              /\ f \in DOMAIN appCachedValues'
              /\ appCachedValues'[f] = SyncRead(disk[f].data)
              /\ ExternalOf(emitted', f) = {}]_vars

\* C4: a watch event starts the 100 ms single-shot timer only if none is pending; an
\* event delivered while the timer is pending leaves the timer and its remaining
\* time as they are; the timer is started by watch events only, and an expiry (one
\* detection run) leaves no timer pending.
C4_DebounceCoalescing ==
    [][/\ lastOp'.name = "onFileChanged" =>
            IF timerActive
            THEN timerActive' /\ timerRemaining' = timerRemaining
            ELSE timerActive' /\ timerRemaining' = 100
       /\ (timerActive' /\ ~timerActive) => lastOp'.name = "onFileChanged"
       /\ lastOp'.name = "timeout" => (timerActive /\ ~timerActive')
       /\ cachedValues' # cachedValues =>
            lastOp'.name \in {"timeout", "setValue", "remove", "clear"}]_vars

\* An event was delivered while the timer was pending and part of the delay had passed.
C4_Witness ==
    lastOp.name = "onFileChanged" /\ lastOp.flag /\ timerActive /\ timerRemaining < 100

\* C5 as stated: externalValueChanged is emitted only by a timer expiry, and an
\* expiry comes no earlier than 100 ms after the last watch event coalesced into it.
C5_Original ==
    [][/\ ExternalIn(emitted') # {} => lastOp'.name = "timeout"
       /\ lastOp'.name = "timeout" => sinceEvent >= 100]_vars

\* C5 amended: externalValueChanged is emitted only by a timer expiry, and an expiry
\* comes no earlier than 100 ms after the watch event that started the timer (the
\* first of the events coalesced into the run).
C5_AfterFirstEvent ==
    [][/\ ExternalIn(emitted') # {} => lastOp'.name = "timeout"
       /\ lastOp'.name = "timeout" => sinceArm >= 100]_vars

\* An expiry that emitted, 100 ms after the timer's start and less after the last event.
C5_Witness ==
    /\ lastOp.name = "timeout" /\ ExternalIn(emitted) # {}
    /\ sinceArm = 100 /\ sinceEvent < 100

\* C6 as stated: valueChanged is emitted only inside a local setValue or remove call.
C6_Original ==
    ValueChangedIn(emitted) # {} => lastOp.name \in {"setValue", "remove"}

\* C6 amended: valueChanged is emitted inside a local setValue or remove call; a
\* System-scope instance emits it nowhere else; the timer expiry of an
\* Application-scope instance emits valueChanged(k, v) together with each
\* externalValueChanged(appName, k, v) of the detected delta, and only then.
C6_LocalOrMirrored ==
    /\ ValueChangedIn(emitted) # {} =>
          \/ lastOp.name \in {"setValue", "remove"}
          \/ lastOp.name = "timeout" /\ scope = ApplicationScope
    /\ (lastOp.name = "timeout" /\ scope = ApplicationScope) =>
          /\ \A s \in ValueChangedIn(emitted) :
                \E e \in ExternalFor(emitted, appName, s.key) : e.value = s.value
          /\ \A e \in ExternalIn(emitted) :
                \E s \in ValueChangedIn(emitted) : s.key = e.key /\ s.value = e.value

\* An expiry of an Application-scope instance that reported an external edit.
C6_Witness ==
    /\ lastOp.name = "timeout" /\ scope = ApplicationScope
    /\ ValueChangedIn(emitted) # {} /\ ExternalIn(emitted) # {}

\* C7: when setValue or remove emits valueChanged(k, v), the store and the backing
\* file already hold the outcome: the file read at that moment has k with the text
\* of v, or has no k when v is the removal marker.
C7_PersistBeforeNotify ==
    lastOp.name \in {"setValue", "remove"} =>
        \A s \in ValueChangedIn(emitted) :
            IF s.value.type = "invalid"
            THEN s.onDisk = Absent /\ s.key \notin DOMAIN settings
            ELSE /\ s.onDisk = Encode(s.value)
                 /\ s.key \in DOMAIN settings /\ QVariantEq(settings[s.key], s.value)

\* A setValue that replaced a stored value and notified, the file holding the new one.
C7_Witness ==
    /\ lastOp.name = "setValue" /\ lastOp.flag
    /\ \E s \in ValueChangedIn(emitted) :
          s.onDisk = Encode(s.value) /\ OwnData[s.key] = s.onDisk

\* C8: in every quiescent state (no timer pending, every watch event handled) the
\* snapshot cache equals the contents of the backing file.
C8_CacheEqualsDisk ==
    (~timerActive /\ pendingEvents = 0) => \A k \in Keys : CacheAgrees(k)

\* C9: a detectChanges pass that follows another pass with no change of the file in
\* between returns an empty delta, whatever the first pass found or skipped.
C9_SecondPassEmpty ==
    [][(lastOp'.name = "timeout" /\ passState # "none") =>
          ExternalOf(emitted', appName) = {}]_vars

\* Supporting C9: the second pass is empty when the first pass was not a suppressed one.
C9_AfterDiffedPass ==
    [][(lastOp'.name = "timeout" /\ passState = "diffed") =>
          ExternalOf(emitted', appName) = {}]_vars

\* C10: after setValue(k, v), value(k, d) under the same group stack equals v for
\* every default d.
C10_RoundTrip ==
    lastOp.name = "setValue" =>
        \A d \in InputValues \cup {Invalid} :
            QVariantEq(QValue(settings, fullKey(lastOp.leaf), d), lastOp.value)

\* An integer was written to a key inside a group, replacing what was stored.
C10_Witness ==
    /\ lastOp.name = "setValue" /\ lastOp.flag
    /\ lastOp.value.type = "int" /\ currentGroup # <<>>

\* C11: after remove(k), contains(k) is false and value(k, d) returns d for every
\* default d under the same group stack, and neither the snapshot cache nor
\* allKeys() holds a key that the call deleted from the store (k or a sub-key of k).
C11_Deletion ==
    [][lastOp'.name = "remove" =>
          LET fk == fullKey(lastOp'.leaf)
              deleted == SubTree(QAllKeys(settings) \cup DOMAIN OwnData, fk)
          IN  /\ ~QContains(settings', fk)
              /\ \A d \in InputValues \cup {Invalid} : QValue(settings', fk, d) = d
              /\ \A k \in deleted : k \notin QAllKeys(settings') /\ k \notin DOMAIN cachedValues']_vars

\* Supporting C11: the part about the store holds, only the cache keeps deleted keys.
C11_StoreDeletion ==
    [][lastOp'.name = "remove" =>
          LET fk == fullKey(lastOp'.leaf)
              deleted == SubTree(QAllKeys(settings) \cup DOMAIN OwnData, fk)
          IN  /\ ~QContains(settings', fk)
              /\ \A d \in InputValues \cup {Invalid} : QValue(settings', fk, d) = d
              /\ \A k \in deleted : k \notin QAllKeys(settings') /\ k \notin DOMAIN OwnData'
              /\ fk \notin DOMAIN cachedValues']_vars

\* C12: a leaf written while group stack g is active is stored under the flat key
\* g + leaf (the leaf alone when g is empty); the write makes the leaf visible to
\* contains(leaf) under g and under no other stack (another stack sees the leaf only
\* if the file holds that other key); beginGroup pushes one segment and endGroup
\* pops one without touching the store, so the leaf is hidden after the matching
\* endGroup and visible again after re-entering the same groups.
C12_GroupScoping ==
    [][/\ (lastOp'.name = "setValue" /\ lastOp'.flag) =>
            /\ lastOp'.key = currentGroup \o lastOp'.leaf
            /\ QValue(settings', lastOp'.key, Invalid) = lastOp'.value
            /\ OwnData'[lastOp'.key] = Encode(lastOp'.value)
            /\ \A g \in GroupStacks :
                  QContains(settings', g \o lastOp'.leaf) <=>
                      (g = currentGroup \/ g \o lastOp'.leaf \in DOMAIN OwnData)
       /\ lastOp'.name = "beginGroup" =>
            currentGroup' = currentGroup \o lastOp'.leaf /\ settings' = settings
       /\ lastOp'.name = "endGroup" =>
            /\ settings' = settings
            /\ \/ currentGroup = <<>> /\ currentGroup' = <<>>
               \/ currentGroup # <<>> /\ currentGroup = currentGroup' \o <<"a">>]_vars

\* A leaf was written two groups deep: it is stored under a/a/x and neither the
\* outer level nor the first group has a key for it.
C12_Witness ==
    /\ lastOp.name = "setValue" /\ lastOp.flag /\ currentGroup = <<"a", "a">>
    /\ QContains(settings, fullKey(<<"x">>))
    /\ ~QContains(settings, <<"x">>) /\ ~QContains(settings, <<"a", "x">>)

C13_OnePointer ==
    /\ built <= 1
    /\ \A t \in Threads : pc[t] = "done" => result[t] = "inst"
    /\ \A t \in Threads : pc[t] \in {"recheck", "new", "new2", "unlock"} => s_mutex = t

\* What file f holds for key k at this moment, d when it has no such key.
OnDiskValue(f, k, d) ==
    IF k \in DOMAIN disk[f].data THEN Decode(disk[f].data[k]) ELSE d

\* C14: on any instance and under any group stack, systemValue(key, d) is the value
\* system.conf holds for key at the moment of the call and appValue(app, key, d)
\* the value <app>.conf holds for key, d when the file has no such key.
C14_CrossScopeReads ==
    \A k \in Keys \cup SiblingKeys : \A d \in {Invalid, Str("2")} :
        /\ systemValue(k, d) = OnDiskValue("system", k, d)
        /\ \A f \in AppNames : appValue(f, k, d) = OnDiskValue(f, k, d)

\* Supporting C14: the reads that open the file themselves agree with the file.
C14_FreshReads ==
    \A k \in Keys \cup SiblingKeys : \A d \in {Invalid, Str("2")} :
        /\ scope = ApplicationScope => systemValue(k, d) = OnDiskValue("system", k, d)
        /\ \A f \in AppNames : appValue(f, k, d) = OnDiskValue(f, k, d)

\* The keys a pass over file contents data must report against cache: those the
\* file holds that the cache lacks or holds with another value, and those the
\* cache holds that the file lacks.
ExpectedDelta(cache, data) ==
    {k \in DOMAIN data : k \notin DOMAIN cache \/ Encode(cache[k]) # data[k]}
        \cup ((DOMAIN cache) \ (DOMAIN data))
CacheIs(cache, data) ==
    DOMAIN cache = DOMAIN data /\ \A k \in DOMAIN data : Encode(cache[k]) = data[k]
PassAsSpecified(sigs, cache, cacheAfter, data) ==
    /\ {s.key : s \in sigs} = ExpectedDelta(cache, data)
    /\ Cardinality(sigs) = Cardinality(ExpectedDelta(cache, data))
    /\ \A s \in sigs : Reports(s, data)
    /\ CacheIs(cacheAfter, data)

\* C15: a detection pass that is not suppressed returns exactly one entry for every
\* key the file holds that the cache lacks or holds with another value (with the
\* file's value) and for every key the cache holds that the file lacks (with the
\* removal marker), and leaves the cache equal to the file's contents; so does the
\* pass over each application file of a System-scope instance.
C15_DifferencerResult ==
    [][(lastOp'.name = "timeout" /\ ~lastOp'.flag) =>
          /\ PassAsSpecified(ExternalOf(emitted', appName), cachedValues, cachedValues', OwnData)
          /\ scope = SystemScope =>
                \A f \in AppNames : disk[f].exists =>
                    PassAsSpecified(ExternalOf(emitted', f),
                                    IF f \in DOMAIN appCachedValues
                                    THEN appCachedValues[f] ELSE EmptyMap,
                                    appCachedValues'[f], disk[f].data)]_vars

\* A pass that reported one key as removed and another with a new value.
C15_Witness ==
    /\ lastOp.name = "timeout" /\ ~lastOp.flag
    /\ \E s \in ExternalOf(emitted, appName) : s.value = Invalid
    /\ \E s \in ExternalOf(emitted, appName) : s.value # Invalid
    /\ CacheIs(cachedValues, OwnData)

\* C16: setValue, remove and clear arm the suppressor exactly when the call changes
\* what the backing file holds; a call that leaves the file's contents as they were
\* leaves the suppressor as it was.
C16_SuppressorArming ==
    [][lastOp'.name \in {"setValue", "remove", "clear"} =>
          ignoreNextChange' = IF disk'[appName] # disk[appName] THEN TRUE
                              ELSE ignoreNextChange]_vars

\* Supporting C16: setValue arms the suppressor when it writes and leaves it alone
\* when the stored value equals the argument; remove and clear always arm it.
C16_ArmedByCalls ==
    [][/\ lastOp'.name = "setValue" =>
            ignoreNextChange' = IF lastOp'.flag THEN TRUE ELSE ignoreNextChange
       /\ lastOp'.name \in {"remove", "clear"} => ignoreNextChange']_vars

\* C17: the suppressor holds one credit however many local writes armed it: a pass
\* is skipped exactly when the suppressor is set, which is the case whenever a
\* setValue wrote since the last pass; the skipped pass clears it; only setValue,
\* remove and clear set it again; and a pass that finds it clear reloads the file
\* and leaves the cache equal to it.
C17_SingleCredit ==
    [][/\ lastOp'.name = "timeout" =>
            /\ lastOp'.flag <=> ignoreNextChange
            /\ ~ignoreNextChange'
            /\ (\E k \in Keys : setCalls[k] = "wrote") => lastOp'.flag
            /\ ~lastOp'.flag =>
                  settings' = SyncRead(OwnData) /\ CacheIs(cachedValues', OwnData)
       /\ lastOp'.name \notin {"timeout", "setValue", "remove", "clear"} =>
            ignoreNextChange' = ignoreNextChange
       /\ lastOp'.name \in {"setValue", "remove", "clear"} =>
            (ignoreNextChange => ignoreNextChange')]_vars

\* setValue wrote two keys with no pass between the calls; the suppressor is set
\* once and the pass that will be skipped is due.
C17_Witness ==
    /\ \A k \in Keys : setCalls[k] = "wrote"
    /\ ignoreNextChange /\ ExpiryDue

\* The keys whose content in the instance's file a step changed.
ChangedOnDisk == {k \in Keys : OnDisk(OwnData, k) # OnDisk(OwnData', k)}
LocalWriteNotified(k) ==
    /\ StoreReflectsDisk(settings', OwnData', k)
    /\ StoreReflectsDisk(cachedValues', OwnData', k)
    /\ \E s \in ValueChangedIn(emitted') : s.key = k /\ Reports(s, OwnData')

\* C18: a setValue, remove or clear call that changes what the file holds updates
\* the store, arms the suppressor, updates the snapshot cache and emits, before it
\* returns, a valueChanged for every key it changed or removed.
C18_LocalNotification ==
    [][(lastOp'.name \in {"setValue", "remove", "clear"} /\ ChangedOnDisk # {}) =>
          /\ ignoreNextChange'
          /\ \A k \in ChangedOnDisk : LocalWriteNotified(k)]_vars

\* Supporting C18: setValue does all of it for the key it writes, and remove for
\* the key it is called with.
C18_NotifiedByKey ==
    [][((lastOp'.name = "setValue" /\ lastOp'.flag) \/ lastOp'.name = "remove") =>
          /\ ignoreNextChange'
          /\ ChangedOnDisk \subseteq SubTree(Keys, lastOp'.key)
          /\ lastOp'.key \in ChangedOnDisk => LocalWriteNotified(lastOp'.key)]_vars

\* C19: a timer expiry at which the instance's own file exists leaves the file in
\* the watch set, also when it had dropped out because the file was deleted and
\* recreated; a later write to the watched file by another process raises a watch
\* event, and a delivered watch event leaves the timer pending.
C19_WatchReattached ==
    [][/\ (lastOp'.name = "timeout" /\ disk[appName].exists) => appName \in watcherFiles'
       /\ (lastOp'.name = "externalWrite" /\ lastOp'.leaf = <<appName>>
              /\ appName \in watcherFiles) => pendingEvents' = pendingEvents + 1
       /\ lastOp'.name = "onFileChanged" => timerActive']_vars

\* The own file exists and is out of the watch set (it was created or recreated
\* after it had been missing, or replaced), and the timer is about to expire.
C19_Witness ==
    /\ ExpiryDue /\ disk[appName].exists /\ appName \notin watcherFiles
    /\ lastOp.name = "tick"

\* C20: the constructor of a System-scope instance leaves, for every application
\* file that exists, a cache entry equal to the file's contents and the file in the
\* watch set, and emits nothing; and an expiry emits no externalValueChanged for a
\* key of a cached application file whose content in the file is what the cache
\* holds, so the first expiry reports no key unchanged since construction.
C20_ConstructionSeeding ==
    [][/\ (lastOp.name = "init" /\ scope = SystemScope) =>
            /\ emitted = {}
            /\ \A f \in AppNames : disk[f].exists =>
                  /\ f \in DOMAIN appCachedValues
                  /\ CacheIs(appCachedValues[f], disk[f].data)
                  /\ f \in watcherFiles
       /\ (lastOp'.name = "timeout" /\ scope = SystemScope) =>
            \A f \in (DOMAIN appCachedValues) \cap AppNames :
                \A s \in ExternalOf(emitted', f) :
                    /\ disk[f].exists
                    /\ s.key \in ExpectedDelta(appCachedValues[f], disk[f].data)]_vars

\* An expiry of a System-scope instance with app1.conf holding x: a key of
\* system.conf is reported, nothing of app1.conf.
C20_Witness ==
    /\ lastOp.name = "timeout" /\ scope = SystemScope /\ ~lastOp.flag
    /\ <<"x">> \in DOMAIN disk["app1"].data
    /\ ExternalOf(emitted, "system") # {} /\ ExternalOf(emitted, "app1") = {}

\* C21: a suppressed pass emits nothing for the instance's file and leaves the
\* snapshot cache and the edits still to be reported as they were; the next pass
\* that is not suppressed emits one externalValueChanged, with the file's content,
\* for every key edited from outside whose content in the file differs from the
\* cache at that pass, and brings the cache to the file's content for it.
C21_DeferredNotLost ==
    [][/\ (lastOp'.name = "timeout" /\ lastOp'.flag) =>
            /\ cachedValues' = cachedValues
            /\ extTouched' = extTouched
            /\ ExternalOf(emitted', appName) = {}
       /\ (lastOp'.name = "timeout" /\ ~lastOp'.flag) =>
            \A k \in extTouched : ~CacheAgrees(k) =>
                /\ Cardinality(ExternalFor(emitted', appName, k)) = 1
                /\ \A s \in ExternalFor(emitted', appName, k) : Reports(s, OwnData)
                /\ StoreReflectsDisk(cachedValues', OwnData, k)]_vars

\* A suppressed pass has just run while an edit from outside was in the file: the
\* edit is unreported and the cache still differs from the file.
C21_Witness ==
    /\ lastOp.name = "timeout" /\ lastOp.flag
    /\ \E k \in extTouched : ~CacheAgrees(k)

\* C22: at an expiry of a System-scope instance whose pass over system.conf is
\* suppressed, nothing is emitted for system.conf, and every application file that
\* exists is still diffed against its cache entry: its changes are emitted as
\* externalValueChanged carrying that application's name and its entry is brought
\* to the file's contents.
C22_SuppressionScopedToSystemFile ==
    [][(lastOp'.name = "timeout" /\ lastOp'.flag /\ scope = SystemScope) =>
          /\ ExternalOf(emitted', "system") = {}
          /\ cachedValues' = cachedValues
          /\ \A f \in AppNames : disk[f].exists =>
                /\ f \in DOMAIN appCachedValues'
                /\ PassAsSpecified(ExternalOf(emitted', f),
                                   IF f \in DOMAIN appCachedValues
                                   THEN appCachedValues[f] ELSE EmptyMap,
                                   appCachedValues'[f], disk[f].data)]_vars

\* A suppressed expiry of a System-scope instance that reported a change of app1.conf.
C22_Witness ==
    /\ lastOp.name = "timeout" /\ lastOp.flag /\ scope = SystemScope
    /\ ExternalOf(emitted, "app1") # {}
    /\ ExternalOf(emitted, "system") = {}

====
